---- MODULE Spec2Model ----
(***************************************************************************)
(* MixMerge audio merge job pipeline of ai-den77.                          *)
(*                                                                         *)
(* The model covers the /api/mixmerge/* request handlers of                *)
(* server/routes.ts, the DatabaseStorage methods they call, the background *)
(* task scheduled with setImmediate, and the uploads/ directory.  Every    *)
(* await on the storage layer is a point where other requests and tasks    *)
(* interleave, so a handler is one action per storage round trip.          *)
(***************************************************************************)
EXTENDS Integers, Sequences, FiniteSets, TLC

\* ------------------------------------------------------------------ bounds
MaxUploads == 2      \* upload requests accepted by the model
MaxJobs    == 1      \* rows ever inserted into merge_jobs
MaxIdsLen  == 2      \* longest fileIds array a request carries
MaxInFlight == 1     \* requests being handled at the same time
MaxListed  == 2      \* rows ever inserted into merge_jobs under SpecList

Users == {"alice", "bob"}

FileIds == 1..MaxUploads
JobIds  == 1..MaxJobs
Slots   == 1..MaxInFlight

\* ------------------------------------------------------- names and values
Null == <<>>

\* multer's stored filename of the n-th upload, unique per upload
SrcName(n) == <<"src", n>>

\* `uploads/${file?.filename}` when getAudioFile returned undefined
UndefinedName == <<"undefined">>

Terminal == {"completed", "failed"}

\* outputFormat values a request body may carry; "" is an absent (falsy) field
BodyFormats == {"", "wav", "ogg"}

\* the containers the encoder can write
Supported == {"mp3", "wav"}

\* `merged_${Date.now()}_${random}.${extension}`, unique per task
MergedName(j, extension) == <<"merged", j, extension>>

\* progress values handed to the callback, in tenths of a percent
ProgressTicks == {455, 1000}

\* Math.floor(progress)
Floor(p) == p \div 10

RECURSIVE SeqsUpTo(_, _)
SeqsUpTo(S, n) ==
  IF n = 0 THEN {<<>>}
  ELSE LET shorter == SeqsUpTo(S, n - 1)
       IN  shorter \cup {Append(s, x) : s \in {t \in shorter : Len(t) = n - 1}, x \in S}

\* req.body.fileIds: absent, a non-array value, or an array of ids
BodyFileIds ==
  {[kind |-> "missing", ids |-> <<>>], [kind |-> "scalar", ids |-> <<>>]}
    \cup {[kind |-> "array", ids |-> s] : s \in SeqsUpTo(FileIds, MaxIdsLen)}

Range(s) == {s[i] : i \in DOMAIN s}

VARIABLES
  audioFiles,   \* audio_files table: id -> [filename, uploadedBy]
  mergeJobs,    \* merge_jobs table: id -> row
  mergeJobFiles,\* merge_job_files rows grouped by job: jobId -> <<audioFileId>>
  blobs,        \* names present in uploads/
  nextFileId,   \* audio_files serial
  nextJobId,    \* merge_jobs serial
  uploads,      \* files multer has stored so far
  req,          \* per slot: the request being handled and who sent it
  resp,         \* the response just sent, until its caller has it
  task,         \* per job id: the setImmediate callback's position and closure
  writes,       \* un-awaited updateMergeJob({progress}) calls not yet applied
  unhandled     \* promise rejections nobody handles, until the runtime reports them

vars == <<audioFiles, mergeJobs, mergeJobFiles, blobs, nextFileId, nextJobId,
          uploads, req, resp, task, writes, unhandled>>

store == <<audioFiles, mergeJobs, mergeJobFiles, blobs>>

\* ------------------------------------------------------------ request slot
Idle == [user |-> "none", op |-> "idle", pc |-> "idle", id |-> 0, ids |-> <<>>, fmt |-> "",
         snap |-> Null]

NoBody == [id |-> 0, status |-> "none", progress |-> 0, outputFile |-> Null,
           outputFormat |-> "", createdBy |-> "none", createdAt |-> 0,
           completedAt |-> Null]

\* what the sender of request r receives
Response(r, code, body) ==
  [op |-> r.op, user |-> r.user, code |-> code, body |-> body, id |-> r.id, ids |-> r.ids]

NoResponse == Response(Idle, 0, NoBody)

NoTask == [pc |-> "none", ids |-> <<>>, fmt |-> "", paths |-> <<>>,
           out |-> Null, last |-> 0]

Init ==
  /\ audioFiles = <<>>
  /\ mergeJobs = <<>>
  /\ mergeJobFiles = <<>>
  /\ blobs = {}
  /\ nextFileId = 1
  /\ nextJobId = 1
  /\ uploads = 0
  /\ req = [s \in Slots |-> Idle]
  /\ resp = NoResponse
  /\ task = [j \in JobIds |-> NoTask]
  /\ writes = {}
  /\ unhandled = {}

\* ---------------------------------------------------------- DatabaseStorage
\* rows are kept in functions keyed by the serial id
Insert(table, id, row) == [k \in DOMAIN table \cup {id} |-> IF k = id THEN row ELSE table[k]]

Remove(table, id) == [k \in DOMAIN table \ {id} |-> table[k]]

\* .set(job): the columns named by the patch, the others untouched
SetColumns(row, patch) ==
  [f \in DOMAIN row |-> IF f \in DOMAIN patch THEN patch[f] ELSE row[f]]

NoFile == [filename |-> Null, uploadedBy |-> "none", uploadedAt |-> 0]

getAudioFile(id) == IF id \in DOMAIN audioFiles THEN audioFiles[id] ELSE NoFile

\* uploaded_at is the time of the insert; inserts are numbered in time order
createAudioFile(file) == Insert(audioFiles, nextFileId, file @@ [uploadedAt |-> nextFileId])

\* deleteAudioFileRows, had the delete matched on the id alone
deleteAudioFileRows_anyUser(id, userId) ==
  {k \in DOMAIN audioFiles : k = id}

\* DELETE ... WHERE id = $1 AND uploaded_by = $2 RETURNING *
deleteAudioFileRows(id, userId) ==
  {k \in DOMAIN audioFiles : k = id /\ audioFiles[k].uploadedBy = userId}

\* .orderBy(desc(column)) over the rows with the given keys
RECURSIVE OrderByDesc(_, _, _)
OrderByDesc(table, keys, column) ==
  IF keys = {} THEN <<>>
  ELSE LET k == CHOOSE k \in keys : \A o \in keys : table[o][column] <= table[k][column]
       IN  <<[id |-> k] @@ table[k]>> \o OrderByDesc(table, keys \ {k}, column)

getAudioFiles(userId) ==
  OrderByDesc(audioFiles, {k \in DOMAIN audioFiles : audioFiles[k].uploadedBy = userId},
              "uploadedAt")

\* getMergeJobs, had the where clause not reached the query
getMergeJobs_everyone(userId) ==
  OrderByDesc(mergeJobs, DOMAIN mergeJobs, "createdAt")

getMergeJobs(userId) ==
  OrderByDesc(mergeJobs, {k \in DOMAIN mergeJobs : mergeJobs[k].createdBy = userId},
              "createdAt")

getMergeJob(id) ==
  IF id \in DOMAIN mergeJobs THEN [id |-> id] @@ mergeJobs[id] ELSE NoBody

\* created_at is the time of the insert; inserts are numbered in time order
createMergeJob(job) ==
  Insert(mergeJobs, nextJobId,
         job @@ [progress |-> 0, outputFile |-> Null, createdAt |-> nextJobId,
                 completedAt |-> Null])

\* updateMergeJob, had the update had no where clause
updateMergeJob_everyRow(id, patch) ==
  [k \in DOMAIN mergeJobs |-> SetColumns(mergeJobs[k], patch)]

\* updateMergeJob, had it written the patch as a new row when the id matches none
updateMergeJob_upserts(id, patch) ==
  IF id \in DOMAIN mergeJobs
    THEN [mergeJobs EXCEPT ![id] = SetColumns(@, patch)]
    ELSE Insert(mergeJobs, id,
                SetColumns([status |-> "pending", progress |-> 0, outputFile |-> Null,
                            outputFormat |-> "mp3", createdBy |-> "none",
                            createdAt |-> id, completedAt |-> Null], patch))

updateMergeJob(id, patch) ==
  IF id \in DOMAIN mergeJobs
    THEN [mergeJobs EXCEPT ![id] = SetColumns(@, patch)]
    ELSE mergeJobs

addJobFiles(jobId, fileIds) == Insert(mergeJobFiles, jobId, fileIds)

\* ------------------------------------------------------------------ helpers
Request(u, op, pc, id, ids, fmt, snap) ==
  [user |-> u, op |-> op, pc |-> pc, id |-> id, ids |-> ids, fmt |-> fmt, snap |-> snap]

\* res.status(code).json(...) ends the handler
Reply(s, r, code, body) ==
  /\ resp' = Response(r, code, body)
  /\ req' = [req EXCEPT ![s] = Idle]

\* the server takes its next step once the last response is out and the last
\* unhandled rejection is reported
Quiet == resp = NoResponse /\ unhandled = {}

\* a new request is taken up by the first free slot
Free(s) == req[s].pc = "idle" /\ \A t \in Slots : t < s => req[t].pc # "idle"

\* a step that sends nothing
Silent == resp' = NoResponse

\* a step in which every rejection is handled
Handled == unhandled' = {}

\* Every storage call is made with ok, whether it completes (TRUE) or throws
\* before it takes effect (FALSE).

Await(s, r) ==
  /\ req' = [req EXCEPT ![s] = r]
  /\ Silent

\* --------------------------------------------------- GET /api/mixmerge/files
ListFiles(s, u, ok) ==
  /\ Quiet
  /\ Free(s)
  /\ LET r == Request(u, "listFiles", "idle", 0, <<>>, "", Null) IN
     IF ok THEN Reply(s, r, 200, [rows |-> getAudioFiles(u)])
     ELSE Reply(s, r, 500, NoBody)
  /\ UNCHANGED <<store, nextFileId, nextJobId, uploads, task, writes>>
  /\ Handled

\* ---------------------------------------------------- GET /api/mixmerge/jobs
ListJobs(s, u, ok) ==
  /\ Quiet
  /\ Free(s)
  /\ LET r == Request(u, "listJobs", "idle", 0, <<>>, "", Null) IN
     IF ok THEN Reply(s, r, 200, [rows |-> getMergeJobs(u)])
     ELSE Reply(s, r, 500, NoBody)
  /\ UNCHANGED <<store, nextFileId, nextJobId, uploads, task, writes>>
  /\ Handled

\* -------------------------------------------------- POST /api/mixmerge/upload
\* UploadStore, had the handler inserted the row before probing the file
UploadStore_insertsFirst(s, u, hasFile, probeOk) ==
  /\ Quiet
  /\ Free(s)
  /\ uploads < MaxUploads
  /\ LET r == Request(u, "upload", "insert", 0, <<>>, "", SrcName(uploads + 1)) IN
     IF ~hasFile
       THEN /\ Reply(s, r, 400, NoBody)
            /\ UNCHANGED <<blobs, uploads, audioFiles, nextFileId>>
       ELSE /\ blobs' = blobs \cup {r.snap}
            /\ uploads' = uploads + 1
            /\ audioFiles' = createAudioFile([filename |-> r.snap, uploadedBy |-> u])
            /\ nextFileId' = nextFileId + 1
            /\ Reply(s, [r EXCEPT !.id = nextFileId], IF probeOk THEN 200 ELSE 500, NoBody)
  /\ UNCHANGED <<mergeJobs, mergeJobFiles, nextJobId, task, writes>>
  /\ Handled

\* multer stores the file, then the handler probes it with getAudioMetadata
UploadStore(s, u, hasFile, probeOk) ==
  /\ Quiet
  /\ Free(s)
  /\ uploads < MaxUploads
  /\ LET r == Request(u, "upload", "insert", 0, <<>>, "", SrcName(uploads + 1)) IN
     IF ~hasFile
       THEN /\ Reply(s, r, 400, NoBody)
            /\ UNCHANGED <<blobs, uploads>>
       ELSE /\ blobs' = blobs \cup {r.snap}
            /\ uploads' = uploads + 1
            /\ IF probeOk THEN Await(s, r) ELSE Reply(s, r, 500, NoBody)
  /\ UNCHANGED <<audioFiles, mergeJobs, mergeJobFiles, nextFileId, nextJobId,
                 task, writes>>
  /\ Handled

UploadInsert(s, ok) ==
  /\ Quiet
  /\ req[s].op = "upload" /\ req[s].pc = "insert"
  /\ IF ok
       THEN /\ audioFiles' = createAudioFile([filename |-> req[s].snap, uploadedBy |-> req[s].user])
            /\ nextFileId' = nextFileId + 1
            /\ Reply(s, [req[s] EXCEPT !.id = nextFileId], 200, NoBody)
       ELSE /\ Reply(s, req[s], 500, NoBody)
            /\ UNCHANGED <<audioFiles, nextFileId>>
  /\ UNCHANGED <<mergeJobs, mergeJobFiles, blobs, nextJobId, uploads, task,
                 writes>>
  /\ Handled

\* ---------------------------------------------- DELETE /api/mixmerge/files/:id
DeleteFileSelect(s, u, id, ok) ==
  /\ Quiet
  /\ Free(s)
  /\ LET file == getAudioFile(id)
         r == Request(u, "deleteFile", "delete", id, <<>>, "", file.filename) IN
     IF ~ok THEN Reply(s, r, 500, NoBody)
     ELSE IF file = NoFile THEN Reply(s, r, 404, NoBody)
     ELSE Await(s, r)
  /\ UNCHANGED <<store, nextFileId, nextJobId, uploads, task, writes>>
  /\ Handled

\* DeleteFileDelete, had the handler removed the file before deleting the row
DeleteFileDelete_unlinksFirst(s, ok) ==
  /\ Quiet
  /\ req[s].op = "deleteFile" /\ req[s].pc = "delete"
  /\ blobs' = blobs \ {req[s].snap}
  /\ LET deleted == deleteAudioFileRows(req[s].id, req[s].user) IN
     IF ~ok
       THEN Reply(s, req[s], 500, NoBody) /\ UNCHANGED audioFiles
     ELSE IF deleted = {}
       THEN Reply(s, req[s], 403, NoBody) /\ UNCHANGED audioFiles
     ELSE /\ audioFiles' = Remove(audioFiles, req[s].id)
          /\ Reply(s, req[s], 200, NoBody)
  /\ UNCHANGED <<mergeJobs, mergeJobFiles, nextFileId, nextJobId, uploads,
                 task, writes>>
  /\ Handled

DeleteFileDelete(s, ok) ==
  /\ Quiet
  /\ req[s].op = "deleteFile" /\ req[s].pc = "delete"
  /\ LET deleted == deleteAudioFileRows(req[s].id, req[s].user) IN
     IF ~ok
       THEN Reply(s, req[s], 500, NoBody) /\ UNCHANGED audioFiles
     ELSE IF deleted = {}
       THEN Reply(s, req[s], 403, NoBody) /\ UNCHANGED audioFiles
     ELSE /\ audioFiles' = Remove(audioFiles, req[s].id)
          /\ Await(s, [req[s] EXCEPT !.pc = "unlink"])
  /\ UNCHANGED <<mergeJobs, mergeJobFiles, blobs, nextFileId, nextJobId, uploads,
                 task, writes>>
  /\ Handled

\* DeleteFileUnlink, had the handler answered without calling deleteFile
DeleteFileUnlink_keepsFile(s) ==
  /\ Quiet
  /\ req[s].op = "deleteFile" /\ req[s].pc = "unlink"
  /\ blobs' = blobs
  /\ Reply(s, req[s], 200, NoBody)
  /\ UNCHANGED <<audioFiles, mergeJobs, mergeJobFiles, nextFileId, nextJobId,
                 uploads, task, writes>>
  /\ Handled

\* deleteFile(`uploads/${file.filename}`)
DeleteFileUnlink(s) ==
  /\ Quiet
  /\ req[s].op = "deleteFile" /\ req[s].pc = "unlink"
  /\ blobs' = blobs \ {req[s].snap}
  /\ Reply(s, req[s], 200, NoBody)
  /\ UNCHANGED <<audioFiles, mergeJobs, mergeJobFiles, nextFileId, nextJobId,
                 uploads, task, writes>>
  /\ Handled

\* --------------------------------------------------- POST /api/mixmerge/merge
\* the row createMergeJob returned, held by the handler and by the task closure
JobObject(r) ==
  [id |-> r.id, status |-> "pending", progress |-> 0, outputFile |-> Null,
   outputFormat |-> r.fmt, createdBy |-> r.user, createdAt |-> r.id,
   completedAt |-> Null]

ValidFileIds(f) == f.kind = "array" /\ Len(f.ids) # 0

MergeCreate(s, u, f, fmt, ok) ==
  /\ Quiet
  /\ Free(s)
  /\ LET r == Request(u, "merge", "addJobFiles", nextJobId, f.ids,
                      IF fmt = "" THEN "mp3" ELSE fmt, Null) IN
     IF ~ValidFileIds(f)
       THEN /\ ok
            /\ Reply(s, [r EXCEPT !.id = 0, !.ids = <<>>], 400, NoBody)
            /\ UNCHANGED <<mergeJobs, nextJobId>>
       ELSE /\ nextJobId \in DOMAIN task
            /\ IF ok
                 THEN /\ mergeJobs' = createMergeJob([status |-> "pending",
                                         outputFormat |-> r.fmt, createdBy |-> u])
                      /\ nextJobId' = nextJobId + 1
                      /\ Await(s, r)
                 ELSE /\ Reply(s, [r EXCEPT !.id = 0], 500, NoBody)
                      /\ UNCHANGED <<mergeJobs, nextJobId>>
  /\ UNCHANGED <<audioFiles, mergeJobFiles, blobs, nextFileId, uploads, task,
                 writes>>
  /\ Handled

\* MergeAddFiles, had the handler awaited the first step of the merge and
\* answered with the row as it then stands
MergeAddFiles_awaitsTask(s, ok) ==
  /\ Quiet
  /\ req[s].op = "merge" /\ req[s].pc = "addJobFiles"
  /\ IF ok
       THEN /\ mergeJobFiles' = addJobFiles(req[s].id, req[s].ids)
            /\ mergeJobs' = updateMergeJob(req[s].id, [status |-> "processing"])
            /\ task' = [task EXCEPT ![req[s].id] =
                          [NoTask EXCEPT !.pc = "lookup", !.ids = req[s].ids,
                                         !.fmt = req[s].fmt]]
            /\ Reply(s, req[s], 200, [JobObject(req[s]) EXCEPT !.status = "processing"])
       ELSE /\ Reply(s, req[s], 500, NoBody)
            /\ UNCHANGED <<mergeJobs, mergeJobFiles, task>>
  /\ UNCHANGED <<audioFiles, blobs, nextFileId, nextJobId, uploads, writes>>
  /\ Handled

\* await addJobFiles; setImmediate(...); res.json(job)
MergeAddFiles(s, ok) ==
  /\ Quiet
  /\ req[s].op = "merge" /\ req[s].pc = "addJobFiles"
  /\ IF ok
       THEN /\ mergeJobFiles' = addJobFiles(req[s].id, req[s].ids)
            /\ task' = [task EXCEPT ![req[s].id] =
                          [NoTask EXCEPT !.pc = "scheduled", !.ids = req[s].ids,
                                         !.fmt = req[s].fmt]]
            /\ Reply(s, req[s], 200, JobObject(req[s]))
       ELSE /\ Reply(s, req[s], 500, NoBody)
            /\ UNCHANGED <<mergeJobFiles, task>>
  /\ UNCHANGED <<audioFiles, mergeJobs, blobs, nextFileId, nextJobId, uploads,
                 writes>>
  /\ Handled

\* ------------------------------------------------- the setImmediate callback
Goto(j, pc) == task' = [task EXCEPT ![j].pc = pc]

\* once the encoder runs, the closure is read only for the output filename
Running(t, pc) == [NoTask EXCEPT !.pc = pc, !.out = t.out]

Finished(j) == task' = [task EXCEPT ![j] = [NoTask EXCEPT !.pc = "done"]]

taskFrame == <<audioFiles, mergeJobFiles, nextFileId, nextJobId, uploads, req>>

\* await storage.updateMergeJob(job.id, { status: "processing" })
TaskStart(j, ok) ==
  /\ Quiet
  /\ Silent
  /\ task[j].pc = "scheduled"
  /\ IF ok
       THEN mergeJobs' = updateMergeJob(j, [status |-> "processing"]) /\ Goto(j, "lookup")
       ELSE UNCHANGED mergeJobs /\ Goto(j, "catch")
  /\ UNCHANGED <<taskFrame, blobs, writes>>
  /\ Handled

\* FilePaths, had the files been taken in ascending id order
FilePaths_sortedById(fileIds) ==
  LET sorted == CHOOSE p \in [DOMAIN fileIds -> Range(fileIds)] :
                  /\ \A i, k \in DOMAIN p : i < k => p[i] <= p[k]
                  /\ \A x \in Range(fileIds) :
                       Cardinality({i \in DOMAIN p : p[i] = x})
                         = Cardinality({i \in DOMAIN fileIds : fileIds[i] = x})
  IN  [i \in DOMAIN fileIds |->
         IF getAudioFile(sorted[i]) = NoFile THEN UndefinedName
         ELSE getAudioFile(sorted[i]).filename]

\* files.map(file => `uploads/${file?.filename}`)
FilePaths(fileIds) ==
  [i \in DOMAIN fileIds |->
     IF getAudioFile(fileIds[i]) = NoFile THEN UndefinedName
     ELSE getAudioFile(fileIds[i]).filename]

\* Extension, had the output always been named .mp3
Extension_alwaysMp3(outputFormat) == "mp3"

Extension(outputFormat) == IF outputFormat = "wav" THEN "wav" ELSE "mp3"

\* await Promise.all(fileIds.map(id => storage.getAudioFile(id)))
TaskLookup(j, ok) ==
  /\ Quiet
  /\ Silent
  /\ task[j].pc = "lookup"
  /\ IF ok
       THEN task' = [task EXCEPT ![j].pc = "merge",
                                 ![j].paths = FilePaths(task[j].ids),
                                 ![j].out = MergedName(j, Extension(task[j].fmt))]
       ELSE Goto(j, "catch")
  /\ UNCHANGED <<taskFrame, mergeJobs, blobs, writes>>
  /\ Handled

\* mergeAudioFiles opens its inputs; an unreadable input or an unsupported
\* container is an EncodingError
EncodeStart(j) ==
  /\ Quiet
  /\ Silent
  /\ task[j].pc = "merge"
  /\ IF Range(task[j].paths) \subseteq blobs /\ task[j].fmt \in Supported
       THEN task' = [task EXCEPT ![j] = Running(@, "encoding")]
       ELSE task' = [task EXCEPT ![j] = Running(@, "catch")]
  /\ UNCHANGED <<taskFrame, mergeJobs, blobs, writes>>
  /\ Handled

\* (progress) => { storage.updateMergeJob(job.id, { progress: Math.floor(progress) }) }
ProgressCallback(j, progress) == writes' = writes \cup {<<j, Floor(progress)>>}

EncodeProgress(j, p) ==
  /\ Quiet
  /\ Silent
  /\ task[j].pc = "encoding"
  /\ p > task[j].last
  /\ ProgressCallback(j, p)
  /\ task' = [task EXCEPT ![j].last = p]
  /\ UNCHANGED <<taskFrame, mergeJobs, blobs>>
  /\ Handled

EncodeSucceed(j) ==
  /\ Quiet
  /\ Silent
  /\ task[j].pc = "encoding"
  /\ blobs' = blobs \cup {task[j].out}
  /\ Goto(j, "completing")
  /\ UNCHANGED <<taskFrame, mergeJobs, writes>>
  /\ Handled

\* an EncodingError leaves no partial output
EncodeFail(j) ==
  /\ Quiet
  /\ Silent
  /\ task[j].pc = "encoding"
  /\ Goto(j, "catch")
  /\ UNCHANGED <<taskFrame, mergeJobs, blobs, writes>>
  /\ Handled

\* CompletedPatch, had it left the output filename out
CompletedPatch_noFile(outputFilename) ==
  [status |-> "completed", progress |-> 100, completedAt |-> <<"now">>]

CompletedPatch(outputFilename) ==
  [status |-> "completed", progress |-> 100, outputFile |-> outputFilename,
   completedAt |-> <<"now">>]

TaskComplete(j, ok) ==
  /\ Quiet
  /\ Silent
  /\ task[j].pc = "completing"
  /\ IF ok
       THEN mergeJobs' = updateMergeJob(j, CompletedPatch(task[j].out)) /\ Finished(j)
       ELSE UNCHANGED mergeJobs /\ Goto(j, "catch")
  /\ UNCHANGED <<taskFrame, blobs, writes>>
  /\ Handled

\* FailedPatch, had the failed write also reset the progress
FailedPatch_resetsProgress == [status |-> "failed", progress |-> 0]

FailedPatch == [status |-> "failed"]

\* TaskCatch, had the callback had no catch block
TaskCatch_rethrows(j, ok) ==
  /\ Quiet
  /\ Silent
  /\ task[j].pc = "catch"
  /\ Finished(j)
  /\ unhandled' = {<<"task", j>>}
  /\ UNCHANGED <<taskFrame, mergeJobs, blobs, writes>>

\* catch (error) { await storage.updateMergeJob(job.id, { status: "failed" }) }
TaskCatch(j, ok) ==
  /\ Quiet
  /\ Silent
  /\ task[j].pc = "catch"
  /\ Finished(j)
  /\ IF ok
       THEN mergeJobs' = updateMergeJob(j, FailedPatch) /\ Handled
       ELSE UNCHANGED mergeJobs /\ unhandled' = {<<"task", j>>}
  /\ UNCHANGED <<taskFrame, blobs, writes>>

\* ProgressWrite, had the progress write also put the row back to processing
ProgressWrite_reopens(j, v, ok) ==
  /\ Quiet
  /\ Silent
  /\ <<j, v>> \in writes
  /\ writes' = writes \ {<<j, v>>}
  /\ IF ok
       THEN /\ mergeJobs' = updateMergeJob(j, [status |-> "processing", progress |-> v])
            /\ Handled
       ELSE UNCHANGED mergeJobs /\ unhandled' = {<<"progress", j>>}
  /\ UNCHANGED <<taskFrame, blobs, task>>

\* an un-awaited progress write reaches the database, at any later time
ProgressWrite(j, v, ok) ==
  /\ Quiet
  /\ Silent
  /\ <<j, v>> \in writes
  /\ writes' = writes \ {<<j, v>>}
  /\ IF ok
       THEN mergeJobs' = updateMergeJob(j, [progress |-> v]) /\ Handled
       ELSE UNCHANGED mergeJobs /\ unhandled' = {<<"progress", j>>}
  /\ UNCHANGED <<taskFrame, blobs, task>>

\* ------------------------------------------------ GET /api/mixmerge/jobs/:id
GetJob(s, u, id, ok) ==
  /\ Quiet
  /\ Free(s)
  /\ LET r == Request(u, "getJob", "idle", id, <<>>, "", Null)
         job == getMergeJob(id) IN
     IF ~ok THEN Reply(s, r, 500, NoBody)
     ELSE IF job = NoBody THEN Reply(s, r, 404, NoBody)
     ELSE Reply(s, r, 200, job)
  /\ UNCHANGED <<store, nextFileId, nextJobId, uploads, task, writes>>
  /\ Handled

\* --------------------------------------------- DELETE /api/mixmerge/jobs/:id
\* deleteMergeJob: select the job, check the owner
\* Owns, had the owner not been compared (as FirebaseStorage.deleteMergeJob does)
Owns_anyUser(job, userId) == job # NoBody

Owns(job, userId) == job # NoBody /\ job.createdBy = userId

\* a throw inside deleteMergeJob is caught there and returned as false
DeleteJobSelect(s, u, id, ok) ==
  /\ Quiet
  /\ Free(s)
  /\ LET job == getMergeJob(id)
         r == Request(u, "deleteJob", "unlink", id, <<>>, "", job.outputFile) IN
     IF ok /\ Owns(job, u) THEN Await(s, r) ELSE Reply(s, r, 404, NoBody)
  /\ UNCHANGED <<store, nextFileId, nextJobId, uploads, task, writes>>
  /\ Handled

\* DeleteJobUnlink, had it left the output file in uploads/
DeleteJobUnlink_keepsFile(s) ==
  /\ Quiet
  /\ req[s].op = "deleteJob" /\ req[s].pc = "unlink"
  /\ blobs' = blobs
  /\ Await(s, [req[s] EXCEPT !.pc = "delete"])
  /\ UNCHANGED <<audioFiles, mergeJobs, mergeJobFiles, nextFileId, nextJobId,
                 uploads, task, writes>>
  /\ Handled

\* if (job.outputFile) { if (fs.existsSync(outputPath)) fs.unlinkSync(outputPath) }
DeleteJobUnlink(s) ==
  /\ Quiet
  /\ req[s].op = "deleteJob" /\ req[s].pc = "unlink"
  /\ blobs' = IF req[s].snap # Null THEN blobs \ {req[s].snap} ELSE blobs
  /\ Await(s, [req[s] EXCEPT !.pc = "delete"])
  /\ UNCHANGED <<audioFiles, mergeJobs, mergeJobFiles, nextFileId, nextJobId,
                 uploads, task, writes>>
  /\ Handled

\* db.delete(mergeJobs).where(eq(mergeJobs.id, id)); the links go by cascade
DeleteJobDelete(s, ok) ==
  /\ Quiet
  /\ req[s].op = "deleteJob" /\ req[s].pc = "delete"
  /\ IF ok
       THEN /\ mergeJobs' = Remove(mergeJobs, req[s].id)
            /\ mergeJobFiles' = Remove(mergeJobFiles, req[s].id)
            /\ Reply(s, req[s], IF req[s].id \in DOMAIN mergeJobs THEN 200 ELSE 404, NoBody)
       ELSE /\ Reply(s, req[s], 404, NoBody)
            /\ UNCHANGED <<mergeJobs, mergeJobFiles>>
  /\ UNCHANGED <<audioFiles, blobs, nextFileId, nextJobId, uploads, task, writes>>
  /\ Handled

\* ------------------------------------------------------ GET /uploads/:filename
\* names a caller may ask for: every name multer or a merge task can produce
UploadNames ==
  {SrcName(n) : n \in FileIds}
    \cup {MergedName(j, extension) : j \in JobIds, extension \in {"mp3", "wav"}}

\* if (fs.existsSync(filePath)) res.sendFile(...) else res.status(404)
ServeUpload(filename) == IF filename \in blobs THEN 200 ELSE 404

\* the route is not behind isAuthenticated: the caller is anyone
FetchUpload(s, filename) ==
  /\ Quiet
  /\ Free(s)
  /\ Reply(s, Request("none", "fetch", "idle", 0, <<>>, "", filename),
           ServeUpload(filename), NoBody)
  /\ UNCHANGED <<store, nextFileId, nextJobId, uploads, task, writes>>
  /\ Handled

\* the response reaches its caller; the runtime reports the rejection
Observe ==
  /\ ~Quiet
  /\ resp' = NoResponse
  /\ unhandled' = {}
  /\ UNCHANGED <<store, nextFileId, nextJobId, uploads, req, task, writes>>

\* ------------------------------------------------------------ specification
Next ==
  \/ \E s \in Slots, u \in Users, hasFile \in BOOLEAN, probeOk \in BOOLEAN : UploadStore(s, u, hasFile, probeOk)
  \/ \E s \in Slots, ok \in BOOLEAN : UploadInsert(s, ok)
  \/ \E s \in Slots, u \in Users, id \in FileIds, ok \in BOOLEAN : DeleteFileSelect(s, u, id, ok)
  \/ \E s \in Slots, ok \in BOOLEAN : DeleteFileDelete(s, ok)
  \/ \E s \in Slots : DeleteFileUnlink(s)
  \/ \E s \in Slots, u \in Users, f \in BodyFileIds, fmt \in BodyFormats, ok \in BOOLEAN : MergeCreate(s, u, f, fmt, ok)
  \/ \E s \in Slots, ok \in BOOLEAN : MergeAddFiles(s, ok)
  \/ \E j \in JobIds, ok \in BOOLEAN : TaskStart(j, ok)
  \/ \E j \in JobIds, ok \in BOOLEAN : TaskLookup(j, ok)
  \/ \E j \in JobIds : EncodeStart(j)
  \/ \E j \in JobIds, p \in ProgressTicks : EncodeProgress(j, p)
  \/ \E j \in JobIds : EncodeSucceed(j)
  \/ \E j \in JobIds : EncodeFail(j)
  \/ \E j \in JobIds, ok \in BOOLEAN : TaskComplete(j, ok)
  \/ \E j \in JobIds, ok \in BOOLEAN : TaskCatch(j, ok)
  \/ \E w \in writes, ok \in BOOLEAN : ProgressWrite(w[1], w[2], ok)
  \/ \E s \in Slots, u \in Users, id \in JobIds, ok \in BOOLEAN : GetJob(s, u, id, ok)
  \/ \E s \in Slots, u \in Users, id \in JobIds, ok \in BOOLEAN : DeleteJobSelect(s, u, id, ok)
  \/ \E s \in Slots : DeleteJobUnlink(s)
  \/ \E s \in Slots, ok \in BOOLEAN : DeleteJobDelete(s, ok)
  \/ \E s \in Slots, filename \in UploadNames : FetchUpload(s, filename)
  \/ \E s \in Slots, u \in Users, ok \in BOOLEAN : ListFiles(s, u, ok)
  \/ \E s \in Slots, u \in Users, ok \in BOOLEAN : ListJobs(s, u, ok)
  \/ Observe

Spec == Init /\ [][Next]_vars

\* ---------------------------------------- two jobs, no storage call throwing
ListedJobIds == 1..MaxListed

\* the one request body SpecList sends: the first upload, merged to wav
ListedBody == [kind |-> "array", ids |-> <<1>>]

InitList ==
  /\ audioFiles = <<>>
  /\ mergeJobs = <<>>
  /\ mergeJobFiles = <<>>
  /\ blobs = {}
  /\ nextFileId = 1
  /\ nextJobId = 1
  /\ uploads = 0
  /\ req = [s \in Slots |-> Idle]
  /\ resp = NoResponse
  /\ task = [j \in ListedJobIds |-> NoTask]
  /\ writes = {}
  /\ unhandled = {}

NextList ==
  \/ \E s \in Slots, u \in Users : UploadStore(s, u, TRUE, TRUE)
  \/ \E s \in Slots : UploadInsert(s, TRUE)
  \/ \E s \in Slots, u \in Users : MergeCreate(s, u, ListedBody, "wav", TRUE)
  \/ \E s \in Slots : MergeAddFiles(s, TRUE)
  \/ \E j \in ListedJobIds : TaskStart(j, TRUE)
  \/ \E j \in ListedJobIds : TaskLookup(j, TRUE)
  \/ \E j \in ListedJobIds : EncodeStart(j)
  \/ \E j \in ListedJobIds, p \in ProgressTicks : EncodeProgress(j, p)
  \/ \E j \in ListedJobIds : EncodeSucceed(j)
  \/ \E j \in ListedJobIds : EncodeFail(j)
  \/ \E j \in ListedJobIds : TaskComplete(j, TRUE)
  \/ \E j \in ListedJobIds : TaskCatch(j, TRUE)
  \/ \E w \in writes : ProgressWrite(w[1], w[2], TRUE)
  \/ \E s \in Slots, u \in Users, id \in ListedJobIds : DeleteJobSelect(s, u, id, TRUE)
  \/ \E s \in Slots : DeleteJobUnlink(s)
  \/ \E s \in Slots : DeleteJobDelete(s, TRUE)
  \/ \E s \in Slots, u \in Users : ListJobs(s, u, TRUE)
  \/ Observe

SpecList == InitList /\ [][NextList]_vars

\* ---------------------------- one job, file deletes, no storage call throwing
NextNoThrow ==
  \/ \E s \in Slots, u \in Users : UploadStore(s, u, TRUE, TRUE)
  \/ \E s \in Slots : UploadInsert(s, TRUE)
  \/ \E s \in Slots, u \in Users, id \in FileIds : DeleteFileSelect(s, u, id, TRUE)
  \/ \E s \in Slots : DeleteFileDelete(s, TRUE)
  \/ \E s \in Slots : DeleteFileUnlink(s)
  \/ \E s \in Slots, u \in Users, f \in BodyFileIds, fmt \in BodyFormats : MergeCreate(s, u, f, fmt, TRUE)
  \/ \E s \in Slots : MergeAddFiles(s, TRUE)
  \/ \E j \in JobIds : TaskStart(j, TRUE)
  \/ \E j \in JobIds : TaskLookup(j, TRUE)
  \/ \E j \in JobIds : EncodeStart(j)
  \/ \E j \in JobIds, p \in ProgressTicks : EncodeProgress(j, p)
  \/ \E j \in JobIds : EncodeSucceed(j)
  \/ \E j \in JobIds : EncodeFail(j)
  \/ \E j \in JobIds : TaskComplete(j, TRUE)
  \/ \E j \in JobIds : TaskCatch(j, TRUE)
  \/ \E w \in writes : ProgressWrite(w[1], w[2], TRUE)
  \/ \E s \in Slots, u \in Users, id \in JobIds : GetJob(s, u, id, TRUE)
  \/ Observe

SpecNoThrow == Init /\ [][NextNoThrow]_vars

\* ================================================================== claims
InFlightMerge(s) == req[s].op = "merge" /\ req[s].pc = "addJobFiles"

Accepted == resp.op = "merge" /\ resp.code = 200

\* C1: a create request whose fileIds holds exactly one id is rejected, and no
\* job row and no link row comes into being for it.
C1_SingleFileRejected ==
  /\ \A s \in Slots : InFlightMerge(s) => Len(req[s].ids) # 1
  /\ Accepted => Len(resp.ids) # 1
  /\ \A j \in DOMAIN mergeJobFiles : Len(mergeJobFiles[j]) # 1

\* C2: GET /api/mixmerge/jobs/:id returns a job only to the user who created it.
C2_ReadOnlyByOwner ==
  (resp.op = "getJob" /\ resp.code = 200) => resp.body.createdBy = resp.user

\* C3: a job whose status is completed has progress 100, whatever the order in
\* which the un-awaited progress writes and the final write are applied.
C3_CompletedMeansFull ==
  \A j \in DOMAIN mergeJobs :
    mergeJobs[j].status = "completed" => mergeJobs[j].progress = 100

\* C4: the response to an accepted create request carries the job as pending
\* and is sent before the background task has taken its first step; only that
\* task's first step moves a job from pending to processing.
C4_ResponseIsPending ==
  /\ [](Accepted =>
          /\ resp.body.id = resp.id
          /\ resp.body.status = "pending"
          /\ task[resp.id].pc = "scheduled"
          /\ resp.id \in DOMAIN mergeJobs => mergeJobs[resp.id].status = "pending")
  /\ [][\A j \in DOMAIN mergeJobs \cap DOMAIN mergeJobs' :
          (mergeJobs[j].status = "pending" /\ mergeJobs'[j].status = "processing")
            => (task[j].pc = "scheduled" /\ task'[j].pc = "lookup" /\ Silent)]_vars

C4_Witness ==
  /\ Accepted
  /\ Len(resp.ids) = 2
  /\ Range(resp.ids) \subseteq DOMAIN audioFiles
  /\ resp.ids[1] # resp.ids[2]

\* nothing is left to run for job j: no handler holds it, its task is over or
\* was never scheduled
Settled(j) ==
  /\ \A s \in Slots : ~(InFlightMerge(s) /\ req[s].id = j)
  /\ task[j].pc \in {"none", "done"}

\* C5: every job row that is created reaches completed or failed; when nothing
\* is left to run for a job, its row is not left in pending or processing.
C5_NoJobLeftBehind ==
  \A j \in DOMAIN mergeJobs : Settled(j) => mergeJobs[j].status \in Terminal

\* C6: every exception raised in the background task is caught and ends in
\* status failed, and no promise the task creates rejects without a handler.
C6_FailuresContained ==
  /\ unhandled = {}
  /\ \A j \in DOMAIN mergeJobs : task[j].pc = "done" => mergeJobs[j].status \in Terminal

\* C7: for every job row, outputFile is set if and only if status is completed.
C7_OutputIffCompleted ==
  \A j \in DOMAIN mergeJobs :
    mergeJobs[j].outputFile # Null <=> mergeJobs[j].status = "completed"

C7_Witness ==
  \E j \in DOMAIN mergeJobs :
    /\ mergeJobs[j].status = "completed"
    /\ mergeJobs[j].outputFile = MergedName(j, "wav")
    /\ task[j].pc = "done"

\* C8: for every completed job row, the file outputFile names is in uploads/,
\* also between the steps of a delete and after a delete that failed part-way.
C8_CompletedOutputExists ==
  \A j \in DOMAIN mergeJobs :
    mergeJobs[j].status = "completed" => mergeJobs[j].outputFile \in blobs

\* C9: a create request naming an id that resolves to no audio_files row is
\* rejected, and no job row is created for it.
C9_UnknownFileRejected ==
  /\ \A s \in Slots :
       (InFlightMerge(s) /\ Len(req[s].ids) >= 2)
         => Range(req[s].ids) \subseteq DOMAIN audioFiles
  /\ (Accepted /\ Len(resp.ids) >= 2) => Range(resp.ids) \subseteq DOMAIN audioFiles

\* the step answers a delete of a job that exists and that the sender did not create
DeniedDelete ==
  /\ resp = NoResponse
  /\ resp'.op = "deleteJob"
  /\ resp'.id \in DOMAIN mergeJobs
  /\ mergeJobs[resp'.id].createdBy # resp'.user

\* C10: a delete of a job by a user who did not create it gets the
\* not-found/denied answer and leaves the job row, its links and uploads/ as
\* they were; such a request never gets past the ownership check.
C10_DeniedDeleteChangesNothing ==
  /\ [](\A s \in Slots :
          (req[s].op = "deleteJob" /\ req[s].id \in DOMAIN mergeJobs)
            => mergeJobs[req[s].id].createdBy = req[s].user)
  /\ [][DeniedDelete =>
          (resp'.code = 404 /\ UNCHANGED <<mergeJobs, mergeJobFiles, blobs>>)]_vars

C10_Witness ==
  /\ resp.op = "deleteJob" /\ resp.code = 404
  /\ resp.id \in DOMAIN mergeJobs
  /\ mergeJobs[resp.id].createdBy # resp.user
  /\ mergeJobs[resp.id].status = "completed"
  /\ mergeJobs[resp.id].outputFile \in blobs
  /\ resp.id \in DOMAIN mergeJobFiles

\* C11: while a job is not yet completed or failed, a step never lowers the
\* progress stored in its row, in whatever order the un-awaited progress
\* writes are applied.
C11_ProgressNeverDrops ==
  [][\A j \in DOMAIN mergeJobs \cap DOMAIN mergeJobs' :
       mergeJobs[j].status \notin Terminal
         => mergeJobs'[j].progress >= mergeJobs[j].progress]_vars

\* the step that answers 200 to the delete held in slot s
DeleteJobDone(s) ==
  /\ req[s].op = "deleteJob" /\ req[s].pc = "delete"
  /\ req'[s].pc = "idle"
  /\ resp'.op = "deleteJob" /\ resp'.code = 200

\* C12: when its owner deletes a job that was completed when the delete read
\* it, the successful answer finds the output file gone from uploads/ and the
\* job row gone, and the output file of a finished task never comes back: a
\* fetch of that filename is answered 404 from then on.
C12_DeleteRemovesOutput ==
  /\ [][\A s \in Slots, j \in JobIds, filename \in UploadNames :
          (DeleteJobDone(s) /\ req[s].id = j /\ req[s].snap = filename)
            => /\ ServeUpload(filename)' = 404
               /\ j \notin DOMAIN mergeJobs']_vars
  /\ [][\A j \in JobIds, extension \in {"mp3", "wav"} :
          (task[j].pc = "done" /\ ServeUpload(MergedName(j, extension)) = 404)
            => ServeUpload(MergedName(j, extension))' = 404]_vars

C12_Witness ==
  \E s \in Slots :
    /\ req[s].op = "deleteJob" /\ req[s].pc = "delete"
    /\ req[s].id \in DOMAIN mergeJobs
    /\ mergeJobs[req[s].id].status = "completed"
    /\ mergeJobs[req[s].id].createdBy = req[s].user
    /\ req[s].snap = MergedName(req[s].id, "wav")
    /\ ServeUpload(req[s].snap) = 404

\* C13: a create request whose outputFormat is neither mp3 nor wav is rejected
\* before any job row or link row is created: no handler gets past validation
\* with such a format and no merge_jobs row carries one.
C13_BadFormatRejected ==
  /\ \A s \in Slots : InFlightMerge(s) => req[s].fmt \in Supported
  /\ \A j \in DOMAIN mergeJobs : mergeJobs[j].outputFormat \in Supported

Listed == resp.op = "listJobs" /\ resp.code = 200

\* C14: the list answered to user U holds exactly the merge_jobs rows created
\* by U and none of another user, later created rows first, each row as it
\* stands in the table when the list is read.
C14_ListIsOwnersLatestFirst ==
  Listed =>
    LET rows == resp.body.rows IN
    /\ {rows[i].id : i \in DOMAIN rows}
         = {j \in DOMAIN mergeJobs : mergeJobs[j].createdBy = resp.user}
    /\ \A i \in DOMAIN rows :
         /\ rows[i].createdBy = resp.user
         /\ rows[i] = getMergeJob(rows[i].id)
    /\ \A i, k \in DOMAIN rows : i < k => rows[i].createdAt > rows[k].createdAt

C14_Witness ==
  /\ Listed
  /\ Len(resp.body.rows) = 2
  /\ resp.body.rows[1].id = 2 /\ resp.body.rows[1].status = "processing"
  /\ resp.body.rows[1].progress = 45
  /\ resp.body.rows[2].id = 1 /\ resp.body.rows[2].status = "completed"

\* the step answers a delete of a file that exists and that the sender did not upload
DeniedFileDelete ==
  /\ resp = NoResponse
  /\ resp'.op = "deleteFile"
  /\ resp'.id \in DOMAIN audioFiles
  /\ audioFiles[resp'.id].uploadedBy # resp'.user

\* C15: a delete of an audio file by a user who did not upload it does not
\* proceed: every step of such a request leaves the audio_files rows and
\* uploads/ as they were, and the request is never answered 200.
C15_DeniedFileDeleteChangesNothing ==
  /\ [][\A s \in Slots, id \in DOMAIN audioFiles :
          (/\ req[s].op = "deleteFile" /\ req[s].id = id
           /\ audioFiles[id].uploadedBy # req[s].user
           /\ req'[s] # req[s])
            => (resp'.code \in {403, 500} /\ UNCHANGED <<audioFiles, blobs>>)]_vars
  /\ [][DeniedFileDelete =>
          (resp'.code # 200 /\ UNCHANGED <<audioFiles, blobs>>)]_vars

C15_Witness ==
  /\ resp.op = "deleteFile" /\ resp.code = 403
  /\ resp.id \in DOMAIN audioFiles
  /\ audioFiles[resp.id].uploadedBy # resp.user
  /\ audioFiles[resp.id].filename \in blobs

\* the step that answers 200 to the delete of a file held in slot s
DeleteFileDone(s) ==
  /\ req[s].op = "deleteFile" /\ req[s].pc = "unlink"
  /\ req'[s].pc = "idle"
  /\ resp'.op = "deleteFile" /\ resp'.code = 200

\* C16: when a delete of an audio file by its owner is answered 200, the file's
\* row is in no user's list and its stored filename is not in uploads/; a row
\* that is gone and a stored file that is gone never come back, and a list only
\* ever holds rows of the table: every later list omits the file and every
\* later fetch of its filename is answered 404.
C16_DeletedFileStaysGone ==
  /\ [][\A s \in Slots, id \in FileIds, filename \in UploadNames :
          (DeleteFileDone(s) /\ req[s].id = id /\ req[s].snap = filename)
            => /\ \A u \in Users : \A i \in DOMAIN getAudioFiles(u)' :
                    getAudioFiles(u)'[i].id # id
               /\ ServeUpload(filename)' = 404]_vars
  /\ [][\A id \in FileIds :
          (id < nextFileId /\ id \notin DOMAIN audioFiles) => id \notin DOMAIN audioFiles']_vars
  /\ [][\A n \in FileIds :
          (n <= uploads /\ ServeUpload(SrcName(n)) = 404)
            => ServeUpload(SrcName(n))' = 404]_vars
  /\ []((resp.op = "listFiles" /\ resp.code = 200)
          => \A i \in DOMAIN resp.body.rows :
               /\ resp.body.rows[i].id \in DOMAIN audioFiles
               /\ resp.body.rows[i].uploadedBy = resp.user)

C16_Witness ==
  /\ resp.op = "deleteFile" /\ resp.code = 200 /\ resp.id = 1
  /\ 1 \notin DOMAIN audioFiles
  /\ ServeUpload(SrcName(1)) = 404
  /\ 2 \in DOMAIN audioFiles
  /\ audioFiles[2].uploadedBy = resp.user
  /\ Len(getAudioFiles(resp.user)) = 1
  /\ ServeUpload(SrcName(2)) = 200

\* the name the task of job j writes its output under
OutputPath(j) == MergedName(j, Extension(mergeJobs[j].outputFormat))

\* C17: for a job that ended in status failed, no file is at the job's output
\* path in uploads/.
C17_FailedLeavesNoOutput ==
  \A j \in DOMAIN mergeJobs :
    mergeJobs[j].status = "failed" => OutputPath(j) \notin blobs

\* the step stores an uploaded file and answers at once: its probe failed
ProbeFailed == uploads' = uploads + 1 /\ resp'.op = "upload"

\* C18: an upload whose metadata extraction fails is rejected and the
\* audio_files rows stay as they were; a row is only ever inserted by an
\* upload whose probe succeeded, for the file that upload stored.
C18_FailedProbeCreatesNoRecord ==
  /\ [][ProbeFailed => (resp'.code = 500 /\ UNCHANGED <<audioFiles, nextFileId>>)]_vars
  /\ [][\A id \in DOMAIN audioFiles' \ DOMAIN audioFiles :
          \E s \in Slots :
            /\ req[s].op = "upload" /\ req[s].pc = "insert"
            /\ audioFiles'[id].filename = req[s].snap]_vars

C18_Witness ==
  /\ resp.op = "upload" /\ resp.code = 500
  /\ uploads = 2
  /\ SrcName(2) \in blobs
  /\ DOMAIN audioFiles = {1}
  /\ audioFiles[1].filename = SrcName(1)

\* C19: the task works on the request's fileIds as sent, and the paths it
\* hands to the encoder are, position by position, the stored filenames its
\* lookup found for those ids: path i belongs to fileIds[i], in no other order.
C19_PathsFollowCallerOrder ==
  /\ [][\A s \in Slots, j \in JobIds :
          (InFlightMerge(s) /\ req[s].id = j /\ task'[j].pc = "scheduled")
            => task'[j].ids = req[s].ids]_vars
  /\ [][\A j \in JobIds :
          (task[j].pc = "lookup" /\ task'[j].pc = "merge")
            => /\ task'[j].ids = task[j].ids
               /\ DOMAIN task'[j].paths = DOMAIN task[j].ids
               /\ \A i \in DOMAIN task[j].ids :
                    task'[j].paths[i] =
                      IF task[j].ids[i] \in DOMAIN audioFiles
                        THEN audioFiles[task[j].ids[i]].filename
                        ELSE UndefinedName]_vars

C19_Witness ==
  \E j \in JobIds :
    /\ task[j].pc = "merge"
    /\ task[j].ids = <<2, 1>>
    /\ task[j].paths = <<SrcName(2), SrcName(1)>>

StatusSteps ==
  {<<"pending", "processing">>, <<"processing", "completed">>,
   <<"processing", "failed">>}

\* C20: the status of a job row only ever moves from pending to processing and
\* from processing to completed or to failed: no step skips processing, moves
\* backwards or leaves a terminal status.
C20_StatusMovesInOrder ==
  [][\A j \in DOMAIN mergeJobs \cap DOMAIN mergeJobs' :
       \/ mergeJobs'[j].status = mergeJobs[j].status
       \/ <<mergeJobs[j].status, mergeJobs'[j].status>> \in StatusSteps]_vars

\* C21: once the status of a job row is completed or failed, no step changes
\* it; the task of the job, once over, never runs again; the row is removed
\* only by a delete its creator sent, and until then every list its creator
\* is answered holds the row with that status.
C21_TerminalIsStable ==
  /\ [][\A j \in DOMAIN mergeJobs \cap DOMAIN mergeJobs' :
          mergeJobs[j].status \in Terminal
            => mergeJobs'[j].status = mergeJobs[j].status]_vars
  /\ [][\A j \in DOMAIN task : task[j].pc = "done" => task'[j].pc = "done"]_vars
  /\ [][\A j \in DOMAIN mergeJobs \ DOMAIN mergeJobs' :
          \E s \in Slots :
            /\ req[s].op = "deleteJob" /\ req[s].id = j
            /\ req[s].user = mergeJobs[j].createdBy]_vars
  /\ [](Listed =>
          \A j \in DOMAIN mergeJobs :
            (mergeJobs[j].createdBy = resp.user /\ mergeJobs[j].status \in Terminal)
              => \E i \in DOMAIN resp.body.rows :
                   /\ resp.body.rows[i].id = j
                   /\ resp.body.rows[i].status = mergeJobs[j].status)

C21_Witness ==
  /\ Listed
  /\ Len(resp.body.rows) = 2
  /\ resp.body.rows[2].status = "failed"
  /\ resp.body.rows[1].status = "completed"
  /\ resp.body.rows[1].progress = 45
  /\ \A j \in DOMAIN task : task[j].pc = "done"

\* job j was created and its row has been deleted
Deleted(j) == j < nextJobId /\ j \notin DOMAIN mergeJobs

\* C22: after the row of a job is deleted while its task still runs, no write
\* of that task brings the row back, so get and list never show the job again;
\* each such write goes through without an error: the task moves on as it
\* would have and no rejection is left unhandled.
C22_WritesToDeletedJobAreNoOps ==
  /\ [][\A j \in DOMAIN task : Deleted(j) => Deleted(j)']_vars
  /\ [][\A j \in DOMAIN task :
          (Deleted(j) /\ task'[j].pc # task[j].pc)
            => /\ task[j].pc = "scheduled" => task'[j].pc = "lookup"
               /\ task[j].pc = "completing" => task'[j].pc = "done"
               /\ task[j].pc = "catch" => task'[j].pc = "done"
               /\ unhandled' = {}]_vars
  /\ [](\A j \in DOMAIN task :
          Deleted(j) => /\ getMergeJob(j) = NoBody
                        /\ \A u \in Users : \A i \in DOMAIN getMergeJobs(u) :
                             getMergeJobs(u)[i].id # j)

C22_Witness ==
  \E j \in DOMAIN task :
    /\ Deleted(j)
    /\ task[j].pc = "completing"
    /\ <<j, 100>> \in writes

\* C23: a job row never exists without its link rows: once the handler that
\* created job j is over, also when its link insertion failed, merge_job_files
\* holds the links of j for the ids of the request.
C23_JobHasItsLinks ==
  \A j \in DOMAIN mergeJobs :
    (\A s \in Slots : ~(InFlightMerge(s) /\ req[s].id = j))
      => (j \in DOMAIN mergeJobFiles /\ Len(mergeJobFiles[j]) > 0)

\* C24: the step that sets the status of a job row to failed changes no other
\* column: progress keeps the value stored before the step, and outputFile and
\* completedAt are unset before and after it.
C24_FailedWritesOnlyStatus ==
  [][\A j \in DOMAIN mergeJobs \cap DOMAIN mergeJobs' :
       (mergeJobs[j].status # "failed" /\ mergeJobs'[j].status = "failed")
         => /\ mergeJobs'[j] = [mergeJobs[j] EXCEPT !.status = "failed"]
            /\ mergeJobs'[j].outputFile = Null
            /\ mergeJobs'[j].completedAt = Null]_vars

C24_Witness ==
  \E j \in DOMAIN mergeJobs :
    /\ mergeJobs[j].status = "failed"
    /\ mergeJobs[j].progress = 45
    /\ mergeJobs[j].outputFile = Null
    /\ mergeJobs[j].completedAt = Null
    /\ task[j].pc = "done"
    /\ writes = {<<j, 100>>}

\* the next statement of the task of job j, no storage call throwing
TaskStep(j) ==
  \/ TaskStart(j, TRUE) \/ TaskLookup(j, TRUE) \/ EncodeStart(j)
  \/ EncodeSucceed(j) \/ EncodeFail(j) \/ TaskComplete(j, TRUE) \/ TaskCatch(j, TRUE)

\* file id was uploaded and its row has been deleted
FileDeleted(id) == id < nextFileId /\ id \notin DOMAIN audioFiles

\* C25: deleting an audio file that a pending or processing job refers to
\* changes no job row and no task; the task can always take its next step,
\* and when it is over the job is in exactly one of completed and failed,
\* outputFile is set just when it is completed, and no rejection was left
\* unhandled.
C25_SourceDeleteKeepsJobSound ==
  /\ [][DOMAIN audioFiles' # DOMAIN audioFiles /\ DOMAIN audioFiles' \subseteq DOMAIN audioFiles
          => UNCHANGED <<mergeJobs, mergeJobFiles, task, writes>>]_vars
  /\ [](unhandled = {})
  /\ [](\A j \in DOMAIN mergeJobs :
          /\ mergeJobs[j].outputFile # Null <=> mergeJobs[j].status = "completed"
          /\ task[j].pc = "done" => mergeJobs[j].status \in Terminal
          /\ (Quiet /\ task[j].pc \notin {"none", "done"}) => ENABLED TaskStep(j))

C25_Witness ==
  \E j \in DOMAIN mergeJobs :
    /\ mergeJobs[j].status = "processing"
    /\ task[j].pc = "merge"
    /\ task[j].ids = <<1, 2>>
    /\ FileDeleted(1)
    /\ task[j].paths = <<UndefinedName, SrcName(2)>>

\* the rows of all jobs but j stay as they are
OthersUntouched(j) ==
  \A k \in (DOMAIN mergeJobs \cap DOMAIN mergeJobs') \ {j} : mergeJobs'[k] = mergeJobs[k]

\* C26: jobs run side by side without a queue: a create request is taken up
\* whatever the other jobs are doing, and a step of the task of job j, or one of
\* its progress writes reaching the database, changes no row but that of j.
C26_JobsAreIndependent ==
  /\ [][\A j \in DOMAIN task : task'[j] # task[j] => OthersUntouched(j)]_vars
  /\ [][\A w \in writes \ writes' : OthersUntouched(w[1])]_vars
  /\ [](\A s \in Slots, u \in Users :
          (Quiet /\ Free(s) /\ nextJobId \in DOMAIN task)
            => ENABLED MergeCreate(s, u, ListedBody, "wav", TRUE))

C26_Witness ==
  /\ DOMAIN mergeJobs = {1, 2}
  /\ mergeJobs[1].status = "processing" /\ mergeJobs[2].status = "processing"
  /\ mergeJobs[1].createdBy # mergeJobs[2].createdBy
  /\ task[1].pc = "encoding" /\ task[2].pc = "encoding"
  /\ mergeJobs[1].progress = 45 /\ mergeJobs[2].progress = 0

\* no request is being handled, no task is running, no write is on its way
Quiescent ==
  /\ Quiet
  /\ \A s \in Slots : req[s].pc = "idle"
  /\ \A j \in DOMAIN task : task[j].pc \in {"none", "done"}
  /\ writes = {}

Referenced ==
  {audioFiles[id].filename : id \in DOMAIN audioFiles}
    \cup {mergeJobs[j].outputFile : j \in DOMAIN mergeJobs}

\* C27: in every quiescent state, every file in uploads/ is the filename of an
\* audio_files row or the outputFile of a merge_jobs row.
C27_NoOrphanBlobs == Quiescent => blobs \subseteq Referenced

\* C28: every audio_files row has its backing file in uploads/, in every
\* state: the file is stored before the row is inserted, and a delete removes
\* the row before the file.
C28_RecordHasBackingFile ==
  \A id \in DOMAIN audioFiles : audioFiles[id].filename \in blobs

C28_Witness ==
  /\ \E s \in Slots :
       /\ req[s].op = "deleteFile" /\ req[s].pc = "unlink" /\ req[s].id = 1
       /\ req[s].snap \in blobs
  /\ DOMAIN audioFiles = {2}
  /\ audioFiles[2].filename \in blobs

\* the extension of a merged_ name
ExtensionOf(outputFilename) == outputFilename[3]

Outcome(deleted, jobs, files) == [deleted |-> deleted, mergeJobs |-> jobs, blobs |-> files]

\* DatabaseStorage.deleteMergeJob(id, userId)
DatabaseDeleteMergeJob(id, userId) ==
  LET job == getMergeJob(id) IN
  IF ~Owns(job, userId) THEN Outcome(FALSE, mergeJobs, blobs)
  ELSE Outcome(TRUE, Remove(mergeJobs, id),
               IF job.outputFile # Null THEN blobs \ {job.outputFile} ELSE blobs)

\* FirebaseStorage.deleteMergeJob(id, userId): doc(id).delete(); return true
FirebaseDeleteMergeJob(id, userId) == Outcome(TRUE, Remove(mergeJobs, id), blobs)

\* C30: on the same jobs and files, for every existing job and every
\* requester, FirebaseStorage.deleteMergeJob returns what
\* DatabaseStorage.deleteMergeJob returns and leaves the same job records and
\* the same files behind.
C30_DeleteMergeJobAgrees ==
  \A id \in DOMAIN mergeJobs, userId \in Users :
    FirebaseDeleteMergeJob(id, userId) = DatabaseDeleteMergeJob(id, userId)

====
